---- MODULE Spec2Model ----
(***************************************************************************)
(* A model of epub_to_md.py: the command surface (main), the conversion    *)
(* pipeline (extract_content_from_epub, convert_html_to_markdown) and the  *)
(* asynchronous upload workflow (upload_to_oss).                           *)
(*                                                                         *)
(* Strings that the code takes apart are modelled by their parts: a path   *)
(* is a sequence of segments and a segment is a record [stem, ext], so     *)
(* that os.path.basename, os.path.splitext, os.path.dirname and            *)
(* os.path.join are computed, not assumed.  A python dict is a sequence of *)
(* [key, val] records: a key keeps the position of its first insertion and *)
(* the value of its last one.                                              *)
(***************************************************************************)
EXTENDS Naturals, Sequences, FiniteSets, TLC

VARIABLES
    call,             \* the arguments of this invocation
    archive,          \* the EPUB archive behind epub_path
    pc,               \* position of the invocation in main / extract_content_from_epub
    scratch,          \* TRUE while the directory made by tempfile.mkdtemp exists
    md_img_dir,       \* base path of image references in the markdown
    raised,           \* "none", or the exception caught at line 301 or 413
    opf_dir,          \* directory of the package descriptor
    itemrefs,         \* idrefs of the spine, in order
    content_items,    \* dict: manifest id -> href of a content document
    image_items,      \* dict: manifest id -> href of an image
    image_map,        \* dict: href or basename -> rewritten reference
    imgIdx,           \* position of the image loop
    assets,           \* dict: file name in image_dir -> bytes written
    markdown_content, \* list of the pieces of the output document
    docIdx,           \* position of the content loop
    convCalls,        \* calls of convert_html_to_markdown made so far
    outputFile,       \* the text file at output_path
    uploadTasks,      \* upload_to_oss tasks created by this invocation
    tempFile,         \* TRUE while the temporary .epub of process_epub_* exists
    markdown_text,    \* the text read back from output_path
    result,           \* what extract_content_from_epub returned
    exitStatus,       \* exit status of main: "running", 0 or 1
    upc,              \* upload workflow: position of each upload_to_oss task
    lock,             \* upload workflow: holder of the per-identifier file lock
    tree,             \* upload workflow: "present" or "deleted" product directory
    status,           \* upload workflow: task status of (identifier, "epub-to-md")
    spc               \* upload workflow: position of the sibling task

pipeVars ==
    << call, archive, pc, scratch, md_img_dir, raised, opf_dir, itemrefs,
       content_items, image_items, image_map, imgIdx, assets, markdown_content,
       docIdx, convCalls, outputFile, uploadTasks, tempFile, markdown_text, result,
       exitStatus >>

upVars == << upc, lock, tree, status, spc >>

vars == << pipeVars, upVars >>

----------------------------------------------------------------------------
(* Bounds of the model *)

MaxImages == 2
MaxDocs == 2
MaxSpine == 3
MaxBody == 2
NumUploads == 2

----------------------------------------------------------------------------
(* Paths *)

Seg(stem, ext) == [stem |-> stem, ext |-> ext]

Basename(p) == IF p = << >> THEN << >> ELSE << p[Len(p)] >>

SplitExt(p) == IF p = << >> THEN "" ELSE p[Len(p)].ext

Dirname(p) == IF p = << >> THEN << >> ELSE SubSeq(p, 1, Len(p) - 1)

Join(a, b) == a \o b

----------------------------------------------------------------------------
(* Python dicts *)

EmptyDict == << >>

DictHas(d, k) == \E i \in 1..Len(d) : d[i].key = k

DictGet(d, k) == d[CHOOSE i \in 1..Len(d) : d[i].key = k].val

DictSet(d, k, v) ==
    IF DictHas(d, k)
    THEN [i \in 1..Len(d) |-> IF d[i].key = k THEN [key |-> k, val |-> v] ELSE d[i]]
    ELSE Append(d, [key |-> k, val |-> v])

DictKeys(d) == [i \in 1..Len(d) |-> d[i].key]

----------------------------------------------------------------------------
(* Values of the program *)

ProductCode == "100227-01"

NoMediaType == "<no media-type attribute>"

ContentTypes == {"application/xhtml+xml", "text/html"}

\* media_type.startswith('image/')
ImageTypes == {"image/png", "image/jpeg"}

\* f"/books/{product_code}/images"
DefaultImgDir == << Seg("", ""), Seg("books", ""), Seg(ProductCode, ""), Seg("images", "") >>

CustomImgDir == << Seg("cdn", "") >>

\* f"{image_id}{ext}"
NewImageName(image_id, image_href) == Seg(image_id, SplitExt(image_href))

\* f"{md_img_dir}/{new_image_name}"
MdImagePath(dir, image_id, image_href) == Join(dir, << NewImageName(image_id, image_href) >>)

\* holders of the file lock
Free == << "free", 0 >>

Sibling == << "sibling", 0 >>

Task(u) == << "upload_to_oss", u >>

Pending == [kind |-> "pending", text |-> << >>]

NoneResult == [kind |-> "None", text |-> << >>]

TextResult(pieces) == [kind |-> "text", text |-> pieces]

\* '\n'.join(markdown_content) is the empty string when nothing was appended;
\* every appended piece is taken to be a non-empty string.
Truthy(r) == r.kind = "text" /\ r.text # << >>

----------------------------------------------------------------------------
(* The manifest: lines 212-229 *)

IsContentType(mt) == mt \in ContentTypes

IsImageType(mt) == mt \in ImageTypes

\* An item without a media-type attribute reaches media_type.startswith
\* with None and raises.
ManifestRaises(manifest) ==
    \E i \in 1..Len(manifest) : manifest[i].mt = NoMediaType

RECURSIVE CollectContent(_, _)
CollectContent(manifest, d) ==
    IF manifest = << >> THEN d
    ELSE CollectContent(Tail(manifest),
            IF IsContentType(Head(manifest).mt)
            THEN DictSet(d, Head(manifest).id, Head(manifest).href)
            ELSE d)

RECURSIVE CollectImages(_, _)
CollectImages(manifest, d) ==
    IF manifest = << >> THEN d
    ELSE CollectImages(Tail(manifest),
            IF ~IsContentType(Head(manifest).mt) /\ IsImageType(Head(manifest).mt)
            THEN DictSet(d, Head(manifest).id, Head(manifest).href)
            ELSE d)

----------------------------------------------------------------------------
(* convert_html_to_markdown: lines 305-354 *)

Elem(tag, src) == [tag |-> tag, src |-> src]

Heading == Elem("h", << >>)
Para == Elem("p", << >>)
Separator == Elem("sep", << >>)
Img(src) == Elem("img", src)

\* lines 316-325
RewriteSrc(src, map) ==
    IF src = << >> THEN src
    ELSE IF DictHas(map, src) THEN DictGet(map, src)
    ELSE IF DictHas(map, Basename(src)) THEN DictGet(map, Basename(src))
    ELSE src

RewriteImages(body, map) ==
    [i \in 1..Len(body) |->
        IF body[i].tag = "img"
        THEN Elem("img", RewriteSrc(body[i].src, map))
        ELSE body[i]]

\* the index enumerate() gives the heading at position i of the document
HeadingIndex(body, i) == Cardinality({j \in 1..(i - 1) : body[j].tag = "h"})

NeedsSeparatorAlways(i) == TRUE

\* line 330: if i > 0
NeedsSeparator(i) == i > 0

RECURSIVE SeparateFrom(_, _)
SeparateFrom(body, i) ==
    IF i > Len(body) THEN << >>
    ELSE (IF body[i].tag = "h" /\ NeedsSeparator(HeadingIndex(body, i))
          THEN << Separator >> ELSE << >>)
         \o << body[i] >> \o SeparateFrom(body, i + 1)

\* lines 328-333
SeparateHeadings(body) == SeparateFrom(body, 1)

Token(md, ref, label) == [md |-> md, ref |-> ref, label |-> label]

\* line 337: h2t.handle, element by element
HandleElem(e) ==
    IF e.tag = "h" THEN Token("heading", << >>, "")
    ELSE IF e.tag = "img" THEN Token("image", e.src, "")
    ELSE IF e.tag = "sep" THEN Token("blank", << >>, "")
    ELSE Token("text", << >>, "")

Handle(soup) == [i \in 1..Len(soup) |-> HandleElem(soup[i])]

\* line 341: runs of blank lines collapse to one
RECURSIVE CollapseBlank(_)
CollapseBlank(md) ==
    IF Len(md) < 2 THEN md
    ELSE IF md[1].md = "blank" /\ md[2].md = "blank" THEN CollapseBlank(Tail(md))
    ELSE << md[1] >> \o CollapseBlank(Tail(md))

\* line 344: an image without alt text, ![](ref), gets the fixed label
FixedLabel == "tupian"

LabelImages(md) ==
    [i \in 1..Len(md) |->
        IF md[i].md = "image" /\ md[i].label = ""
        THEN Token("image", md[i].ref, FixedLabel)
        ELSE md[i]]

PostProcess(md) == LabelImages(CollapseBlank(md))

ConvertDocument(body, map) ==
    PostProcess(Handle(SeparateHeadings(RewriteImages(body, map))))

Piece(kind, md) == [kind |-> kind, md |-> md]

----------------------------------------------------------------------------
(* Archives and calls the model runs on *)

SeqsUpTo(S, n) == UNION {[1..k -> S] : k \in 0..n}

Item(id, href, mt) == [id |-> id, href |-> href, mt |-> mt]

\* hrefs of images: x.png, img/x.png, pic/x.png, img/y.jpg
X0 == << Seg("x", ".png") >>
X1 == << Seg("img", ""), Seg("x", ".png") >>
X2 == << Seg("pic", ""), Seg("x", ".png") >>
Y1 == << Seg("img", ""), Seg("y", ".jpg") >>
ImgHrefs == {X0, X1, X2, Y1}

\* references no manifest item has as href: ../y.jpg and z.gif
U == << Seg("..", ""), Seg("y", ".jpg") >>
Z == << Seg("z", ".gif") >>
Srcs == ImgHrefs \cup {U, Z, << >>}

\* hrefs of content documents: ch1.xhtml, text/ch2.html
D1 == << Seg("ch1", ".xhtml") >>
D2 == << Seg("text", ""), Seg("ch2", ".html") >>
Ids == {"a", "b"}

\* "z" is an idref no manifest item has
SpineIds == Ids \cup {"z"}

DocItems ==
    {Item(id, D1, "application/xhtml+xml") : id \in Ids}
        \cup {Item(id, D2, "text/html") : id \in Ids}

ImgItems ==
    {Item(id, h, IF h = Y1 THEN "image/jpeg" ELSE "image/png") : id \in Ids, h \in ImgHrefs}

RootOpf == << Seg("content", ".opf") >>
SubOpf == << Seg("OEBPS", ""), Seg("content", ".opf") >>

\* the bytes of an image entry
ImageBytes(path) == << Elem("bytes", path) >>

EmptyFile == << >>

Arch(opf, title, author, manifest, spine, entries) ==
    [opf_path |-> opf, title |-> title, author |-> author,
     manifest |-> manifest, spine |-> spine, entries |-> entries, defect |-> "ok"]

\* the same archive with a structural defect
WithDefect(a, d) == [a EXCEPT !.defect = d]

HrefsOf(manifest) == {manifest[i].href : i \in 1..Len(manifest)}

\* documents that tell which entry they came from
OrderBody(href) == IF href = D1 THEN << Heading >> ELSE << Para, Img(Z) >>

HeadingBodies == SeqsUpTo({Heading, Para}, MaxBody)

\* the archive of one document that refers to one image
ImageArchive(m, present, src) ==
    Arch(SubOpf, "T", "A",
         m \o << Item("c", D1, "application/xhtml+xml") >>, << "c" >>,
         [p \in {Join(Dirname(SubOpf), h) : h \in present \cup {D1}} |->
             IF p = Join(Dirname(SubOpf), D1) THEN << Img(src) >> ELSE ImageBytes(p)])

\* a book with a missing image, a book with nothing in it, a book whose
\* documents are unreadable, a book with an item without media type
Book ==
    Arch(SubOpf, "T", "A",
         << Item("a", X1, "image/png"), Item("b", Y1, "image/jpeg"),
            Item("css", Z, "text/css"), Item("c", D1, "application/xhtml+xml") >>,
         << "c" >>,
         (Join(Dirname(SubOpf), Y1) :> ImageBytes(Join(Dirname(SubOpf), Y1)))
            @@ (Join(Dirname(SubOpf), D1) :> << Heading, Img(X1), Img(Y1) >>))

EmptyBook == Arch(RootOpf, "", "", << >>, << >>, << >>)

UnreadableBook ==
    Arch(RootOpf, "", "", << Item("a", D1, "text/html") >>, << "a" >>, << >>)

BadItemBook ==
    Arch(RootOpf, "T", "", << Item("a", D1, NoMediaType) >>, << "a" >>,
         (D1 :> << Heading >>))

LocateDefects == {"not_a_zip", "no_container", "bad_container", "no_rootfile"}

PackageDefects == {"no_descriptor", "bad_descriptor", "no_manifest"}

FewArchives ==
    {WithDefect(a, d) : a \in {Book, EmptyBook, UnreadableBook, BadItemBook},
                        d \in LocateDefects \cup PackageDefects \cup {"ok"}}

Call(entry, save, loop, exists, dir, writable) ==
    [entry |-> entry, save |-> save, loop |-> loop, src_exists |-> exists,
     img_dir_arg |-> dir, writable |-> writable]

\* extract_content_from_epub called by another module, nothing persisted
DirectCall == Call("call", FALSE, FALSE, TRUE, << >>, TRUE)

\* the same inside a running event loop, persisted, with an image base path
PersistedCall == Call("call", TRUE, TRUE, TRUE, CustomImgDir, TRUE)

BookCalls == {DirectCall, PersistedCall}

\* main runs outside any event loop; a caller of extract_content_from_epub
\* may run inside one.  writable: output_path can be written.
Calls ==
    {Call(e, s, FALSE, x, d, TRUE)
        : e \in {"none", "local"}, s \in BOOLEAN, x \in BOOLEAN, d \in {<< >>, CustomImgDir}}
    \cup {Call(e, s, FALSE, TRUE, << >>, w)
        : e \in {"url", "file"}, s \in BOOLEAN, w \in BOOLEAN}
    \cup {Call("call", s, l, x, << >>, w)
        : s \in BOOLEAN, l \in BOOLEAN, x \in BOOLEAN, w \in BOOLEAN}

----------------------------------------------------------------------------
(* The steps of extract_content_from_epub *)

NoFile == [exists |-> FALSE, text |-> << >>]

WrittenFile(pieces) == [exists |-> TRUE, text |-> pieces]

RecordImageHrefOnly(map, image_href, md_image_path) ==
    DictSet(map, image_href, md_image_path)

\* lines 252 and 255: the basename first, then the href
RecordImage(map, image_href, md_image_path) ==
    DictSet(DictSet(map, Basename(image_href), md_image_path), image_href, md_image_path)

\* lines 245-246: open(save_path, 'wb') makes the file, then the entry is read
SavedBytes(entries, image_path) ==
    IF image_path \in DOMAIN entries THEN entries[image_path] ELSE EmptyFile

ImagesDoneAfterFirst == imgIdx > 1 \/ Len(image_items) = 0

\* line 234: the loop over image_items has run out
ImagesDone == imgIdx > Len(image_items)

\* lines 263-266
HeaderPieces(title, author) ==
    (IF title # "" THEN << Piece("title", << >>) >> ELSE << >>)
        \o (IF author # "" THEN << Piece("author", << >>) >> ELSE << >>)

ReadingListOfManifest(refs, items) == DictKeys(items)

\* lines 269-277: what the content loop iterates over
ReadingList(refs, items) == IF refs # << >> THEN refs ELSE DictKeys(items)

\* convert_html_to_markdown, lines 305-354: an unreadable entry appends nothing
ConvertHtmlToMarkdown(entries, dir, file_path, content, map) ==
    IF Join(dir, file_path) \in DOMAIN entries
    THEN Append(content, Piece("fragment", ConvertDocument(entries[Join(dir, file_path)], map)))
    ELSE content

\* every statement of lines 178-299 runs inside the try of line 178: an
\* exception leaves for line 301, anything else goes on to the next step
StepAfterIgnoring(d, next) == next

StepAfter(d, next) == IF d # "ok" THEN "except" ELSE next

Setup ==
    /\ pc = "setup"
    /\ scratch' = ~call.save
    /\ md_img_dir' = IF call.img_dir_arg = << >> THEN DefaultImgDir ELSE call.img_dir_arg
    /\ pc' = "check"
    /\ UNCHANGED << call, archive, raised, opf_dir, itemrefs, content_items,
                    image_items, image_map, imgIdx, assets, markdown_content, docIdx,
                    convCalls, outputFile, uploadTasks, tempFile, markdown_text, result,
                    exitStatus, upVars >>

CheckExists ==
    /\ pc = "check"
    /\ IF call.src_exists
       THEN pc' = "locate" /\ result' = result
       ELSE pc' = "returned" /\ result' = NoneResult
    /\ UNCHANGED << call, archive, scratch, md_img_dir, raised, opf_dir, itemrefs,
                    content_items, image_items, image_map, imgIdx, assets,
                    markdown_content, docIdx, convCalls, outputFile, uploadTasks,
                    tempFile, markdown_text, exitStatus, upVars >>

\* what lines 180-184 raise
LocateDefect(d) == IF d \in LocateDefects THEN d ELSE "ok"

Locate ==
    /\ pc = "locate"
    /\ LET d == LocateDefect(archive.defect)
       IN /\ opf_dir' = IF d = "ok" THEN Dirname(archive.opf_path) ELSE opf_dir
          /\ raised' = IF d = "ok" THEN raised ELSE d
          /\ pc' = StepAfter(d, "parse")
    /\ UNCHANGED << call, archive, scratch, md_img_dir, itemrefs, content_items,
                    image_items, image_map, imgIdx, assets, markdown_content, docIdx,
                    convCalls, outputFile, uploadTasks, tempFile, markdown_text, result,
                    exitStatus, upVars >>

\* what lines 187-229 raise: the defect of the descriptor, or the item
\* without media type
DescriptorDefect(d, manifest) ==
    IF d \in PackageDefects THEN d
    ELSE IF ManifestRaises(manifest) THEN "item_without_media_type"
    ELSE "ok"

ParseDescriptor ==
    /\ pc = "parse"
    /\ LET defect == DescriptorDefect(archive.defect, archive.manifest)
       IN /\ raised' = IF defect = "ok" THEN raised ELSE defect
          /\ pc' = StepAfter(defect, "images")
          /\ IF defect = "ok"
             THEN /\ itemrefs' = archive.spine
                  /\ content_items' = CollectContent(archive.manifest, EmptyDict)
                  /\ image_items' = CollectImages(archive.manifest, EmptyDict)
             ELSE UNCHANGED << itemrefs, content_items, image_items >>
    /\ UNCHANGED << call, archive, scratch, md_img_dir, opf_dir, image_map, imgIdx,
                    assets, markdown_content, docIdx, convCalls, outputFile,
                    uploadTasks, tempFile, markdown_text, result, exitStatus, upVars >>

ExtractImage ==
    /\ pc = "images"
    /\ ~ImagesDone
    /\ LET image_id == image_items[imgIdx].key
           image_href == image_items[imgIdx].val
           image_path == Join(opf_dir, image_href)
       IN /\ assets' = DictSet(assets, NewImageName(image_id, image_href),
                               SavedBytes(archive.entries, image_path))
          /\ image_map' =
                IF image_path \in DOMAIN archive.entries
                THEN RecordImage(image_map, image_href,
                                 MdImagePath(md_img_dir, image_id, image_href))
                ELSE image_map
    /\ imgIdx' = imgIdx + 1
    /\ UNCHANGED << call, archive, pc, scratch, md_img_dir, raised, opf_dir, itemrefs,
                    content_items, image_items, markdown_content, docIdx, convCalls,
                    outputFile, uploadTasks, tempFile, markdown_text, result, exitStatus,
                    upVars >>

Header ==
    /\ pc = "images"
    /\ ImagesDone
    /\ markdown_content' = HeaderPieces(archive.title, archive.author)
    /\ docIdx' = 1
    /\ pc' = "convert"
    /\ UNCHANGED << call, archive, scratch, md_img_dir, raised, opf_dir, itemrefs,
                    content_items, image_items, image_map, imgIdx, assets, convCalls,
                    outputFile, uploadTasks, tempFile, markdown_text, result, exitStatus,
                    upVars >>

Convert ==
    /\ pc = "convert"
    /\ docIdx <= Len(ReadingList(itemrefs, content_items))
    /\ LET idref == ReadingList(itemrefs, content_items)[docIdx]
       IN IF DictHas(content_items, idref)
          THEN /\ markdown_content' =
                    ConvertHtmlToMarkdown(archive.entries, opf_dir,
                                          DictGet(content_items, idref),
                                          markdown_content, image_map)
               /\ convCalls' = convCalls + 1
          ELSE UNCHANGED << markdown_content, convCalls >>
    /\ docIdx' = docIdx + 1
    /\ UNCHANGED << call, archive, pc, scratch, md_img_dir, raised, opf_dir, itemrefs,
                    content_items, image_items, image_map, imgIdx, assets, outputFile,
                    uploadTasks, tempFile, markdown_text, result, exitStatus, upVars >>

\* lines 279-289; the write can fail (the disk, the permissions)
WriteRaises(writable) == IF writable THEN "ok" ELSE "write_failed"

WriteOutput ==
    /\ pc = "convert"
    /\ docIdx > Len(ReadingList(itemrefs, content_items))
    /\ pc' = StepAfter(WriteRaises(call.writable), "cleanup")
    /\ IF call.writable
       THEN /\ outputFile' = WrittenFile(markdown_content)
            /\ markdown_text' = markdown_content
            /\ raised' = raised
       ELSE /\ raised' = WriteRaises(call.writable)
            /\ UNCHANGED << outputFile, markdown_text >>
    /\ UNCHANGED << call, archive, scratch, md_img_dir, opf_dir, itemrefs,
                    content_items, image_items, image_map, imgIdx, assets,
                    markdown_content, docIdx, convCalls, uploadTasks, tempFile, result,
                    exitStatus, upVars >>

\* lines 291-293: shutil.rmtree(temp_dir)
Cleanup ==
    /\ pc = "cleanup"
    /\ IF ~call.save
       THEN scratch' = FALSE /\ assets' = EmptyDict /\ outputFile' = NoFile
       ELSE UNCHANGED << scratch, assets, outputFile >>
    /\ pc' = "spawn"
    /\ UNCHANGED << call, archive, md_img_dir, raised, opf_dir, itemrefs,
                    content_items, image_items, image_map, imgIdx, markdown_content,
                    docIdx, convCalls, uploadTasks, tempFile, markdown_text, result,
                    exitStatus, upVars >>

\* lines 295-299: asyncio.create_task raises RuntimeError outside a running
\* event loop, inside the try of line 178
Spawn ==
    /\ pc = "spawn"
    /\ IF call.save /\ ~call.loop
       THEN /\ pc' = "except"
            /\ raised' = "no_running_loop"
            /\ UNCHANGED << uploadTasks, result >>
       ELSE /\ uploadTasks' = IF call.save THEN uploadTasks + 1 ELSE uploadTasks
            /\ result' = TextResult(markdown_text)
            /\ pc' = "returned"
            /\ raised' = raised
    /\ UNCHANGED << call, archive, scratch, md_img_dir, opf_dir, itemrefs,
                    content_items, image_items, image_map, imgIdx, assets,
                    markdown_content, docIdx, convCalls, outputFile, tempFile,
                    markdown_text, exitStatus, upVars >>

\* lines 301-303
Except ==
    /\ pc = "except"
    /\ result' = NoneResult
    /\ pc' = "returned"
    /\ UNCHANGED << call, archive, scratch, md_img_dir, raised, opf_dir, itemrefs,
                    content_items, image_items, image_map, imgIdx, assets,
                    markdown_content, docIdx, convCalls, outputFile, uploadTasks,
                    tempFile, markdown_text, exitStatus, upVars >>

----------------------------------------------------------------------------
(* main, process_epub_url and process_epub_file: lines 356-465 *)

\* lines 435-437
MainNoSource ==
    /\ pc = "main"
    /\ call.entry = "none"
    /\ exitStatus' = 1
    /\ pc' = "exited"
    /\ UNCHANGED << call, archive, scratch, md_img_dir, raised, opf_dir, itemrefs,
                    content_items, image_items, image_map, imgIdx, assets,
                    markdown_content, docIdx, convCalls, outputFile, uploadTasks,
                    tempFile, markdown_text, result, upVars >>

\* lines 444-451
MainLocal ==
    /\ pc = "main"
    /\ call.entry = "local"
    /\ IF call.src_exists
       THEN pc' = "setup" /\ exitStatus' = exitStatus
       ELSE pc' = "exited" /\ exitStatus' = 1
    /\ UNCHANGED << call, archive, scratch, md_img_dir, raised, opf_dir, itemrefs,
                    content_items, image_items, image_map, imgIdx, assets,
                    markdown_content, docIdx, convCalls, outputFile, uploadTasks,
                    tempFile, markdown_text, result, upVars >>

\* lines 442-443 and 395-408: the download can fail
MainUrl ==
    /\ pc = "main"
    /\ call.entry = "url"
    /\ \E downloaded \in BOOLEAN :
        IF downloaded
        THEN tempFile' = TRUE /\ pc' = "setup" /\ UNCHANGED << result, raised >>
        ELSE /\ tempFile' = tempFile
             /\ pc' = "url_failed"
             /\ result' = NoneResult
             /\ raised' = "download_failed"
    /\ UNCHANGED << call, archive, scratch, md_img_dir, opf_dir, itemrefs,
                    content_items, image_items, image_map, imgIdx, assets,
                    markdown_content, docIdx, convCalls, outputFile, uploadTasks,
                    markdown_text, exitStatus, upVars >>

\* lines 452-457 and 370-376
MainFile ==
    /\ pc = "main"
    /\ call.entry = "file"
    /\ tempFile' = TRUE
    /\ pc' = "setup"
    /\ UNCHANGED << call, archive, scratch, md_img_dir, raised, opf_dir, itemrefs,
                    content_items, image_items, image_map, imgIdx, assets,
                    markdown_content, docIdx, convCalls, outputFile, uploadTasks,
                    markdown_text, result, exitStatus, upVars >>

\* lines 378-380 and 410-412: os.unlink(temp_file_path)
Unlink ==
    /\ pc = "returned"
    /\ tempFile
    /\ tempFile' = FALSE
    /\ UNCHANGED << call, archive, pc, scratch, md_img_dir, raised, opf_dir, itemrefs,
                    content_items, image_items, image_map, imgIdx, assets,
                    markdown_content, docIdx, convCalls, outputFile, uploadTasks,
                    markdown_text, result, exitStatus, upVars >>

\* lines 459-465: if result
ExitStatusOf(r) == IF Truthy(r) THEN 0 ELSE 1

MainResult ==
    /\ pc \in {"returned", "url_failed"}
    /\ call.entry \in {"local", "url", "file"}
    /\ ~tempFile
    /\ exitStatus' = ExitStatusOf(result)
    /\ pc' = "exited"
    /\ UNCHANGED << call, archive, scratch, md_img_dir, raised, opf_dir, itemrefs,
                    content_items, image_items, image_map, imgIdx, assets,
                    markdown_content, docIdx, convCalls, outputFile, uploadTasks,
                    tempFile, markdown_text, result, upVars >>

----------------------------------------------------------------------------
(* The conversion pipeline as a state machine *)

Uploads == 1..NumUploads

StartOf(c, a) ==
    /\ call = c
    /\ archive = a
    /\ pc = IF c.entry = "call" THEN "setup" ELSE "main"
    /\ scratch = FALSE
    /\ md_img_dir = << >>
    /\ raised = "none"
    /\ opf_dir = << >>
    /\ itemrefs = << >>
    /\ content_items = EmptyDict
    /\ image_items = EmptyDict
    /\ image_map = EmptyDict
    /\ imgIdx = 1
    /\ assets = EmptyDict
    /\ markdown_content = << >>
    /\ docIdx = 1
    /\ convCalls = 0
    /\ outputFile = NoFile
    /\ uploadTasks = 0
    /\ tempFile = FALSE
    /\ markdown_text = << >>
    /\ result = Pending
    /\ exitStatus = "running"

NoUploads ==
    /\ upc = [u \in Uploads |-> "idle"]
    /\ lock = Free
    /\ tree = "present"
    /\ status = "PENDING"
    /\ spc = "idle"

\* reading order: manifests of content documents, spines, unreadable documents
InitOrder ==
    \E m \in SeqsUpTo(DocItems, MaxDocs), s \in SeqsUpTo(SpineIds, MaxSpine) :
        \E present \in SUBSET HrefsOf(m), c \in BookCalls :
            StartOf(c, Arch(RootOpf, "T", "", m, s, [h \in present |-> OrderBody(h)]))

\* headings: two documents of every shape
InitHeadings ==
    \E s \in {<< >>, << "b", "a" >>}, b1 \in HeadingBodies, b2 \in HeadingBodies,
       c \in BookCalls :
        StartOf(c,
                Arch(RootOpf, "", "A",
                     << Item("a", D1, "application/xhtml+xml"), Item("b", D2, "text/html") >>,
                     s, (D1 :> b1) @@ (D2 :> b2)))

\* images: manifests of images, missing entries, one document with one reference
InitImages ==
    \E m \in SeqsUpTo(ImgItems, MaxImages), src \in Srcs :
        \E present \in SUBSET HrefsOf(m), c \in BookCalls :
            StartOf(c, ImageArchive(m, present, src))

\* the command surface and the failures of the whole conversion
InitCalls == \E a \in FewArchives, c \in Calls : StartOf(c, a)

Init ==
    /\ InitOrder \/ InitHeadings \/ InitImages \/ InitCalls
    /\ NoUploads

Next ==
    \/ MainNoSource
    \/ MainLocal
    \/ MainUrl
    \/ MainFile
    \/ Setup
    \/ CheckExists
    \/ Locate
    \/ ParseDescriptor
    \/ ExtractImage
    \/ Header
    \/ Convert
    \/ WriteOutput
    \/ Cleanup
    \/ Spawn
    \/ Except
    \/ Unlink
    \/ MainResult

Spec == Init /\ [][Next]_vars

----------------------------------------------------------------------------
(* upload_to_oss: lines 67-118.  Every await is a point where another task *)
(* can run.  task_manager is not part of this file: its lock and its wait  *)
(* are modelled from what the calls of lines 91, 94 and 113 pass and test. *)

\* acquire_file_lock(product_code): the caller takes a free lock and is told
\* so; a held lock is left alone
AcquireFileLock(holder, u) == IF holder = Free THEN Task(u) ELSE holder

\* release_file_lock(product_code): the lock of the identifier is freed
ReleaseFileLock(holder) == Free

\* wait_for_tasks_completion can report completion once the sibling task is
\* not in progress
SiblingsCompleted == spc # "working"

\* line 80
UploadStart(u) ==
    /\ upc[u] = "start"
    /\ status' = "DOING"
    /\ upc' = [upc EXCEPT ![u] = "check_dir"]
    /\ UNCHANGED << pipeVars, lock, tree, spc >>

\* lines 82-88
UploadCheckDir(u) ==
    /\ upc[u] = "check_dir"
    /\ IF tree = "present"
       THEN upc' = [upc EXCEPT ![u] = "acquire"] /\ status' = status
       ELSE upc' = [upc EXCEPT ![u] = "done"] /\ status' = "FAIL"
    /\ UNCHANGED << pipeVars, lock, tree, spc >>

\* line 91
UploadAcquire(u) ==
    /\ upc[u] = "acquire"
    /\ lock' = AcquireFileLock(lock, u)
    /\ upc' = [upc EXCEPT ![u] = IF lock = Free THEN "upload" ELSE "wait"]
    /\ UNCHANGED << pipeVars, tree, status, spc >>

\* lines 92-96: a wait that succeeds falls through to the upload
UploadWait(u) ==
    /\ upc[u] = "wait"
    /\ \E completed \in BOOLEAN :
        IF completed /\ SiblingsCompleted
        THEN upc' = [upc EXCEPT ![u] = "upload"] /\ status' = status
        ELSE upc' = [upc EXCEPT ![u] = "done"] /\ status' = "FAIL"
    /\ UNCHANGED << pipeVars, lock, tree, spc >>

\* lines 98-109: upload_directory, delete_local_files and the status
UploadDirectory(u) ==
    /\ upc[u] = "upload"
    /\ \E outcome \in {"success", "failure", "raise"} :
        /\ tree' = IF outcome = "success" THEN "deleted" ELSE tree
        /\ status' = IF outcome = "success" THEN "SUCCESS"
                     ELSE IF outcome = "failure" THEN "FAIL" ELSE status
        /\ upc' = [upc EXCEPT ![u] = IF outcome = "raise" THEN "release_raised"
                                     ELSE "release"]
    /\ UNCHANGED << pipeVars, lock, spc >>

\* lines 111-113, and 115-118 when the upload raised
UploadRelease(u) ==
    /\ upc[u] \in {"release", "release_raised"}
    /\ lock' = ReleaseFileLock(lock)
    /\ status' = IF upc[u] = "release_raised" THEN "FAIL" ELSE status
    /\ upc' = [upc EXCEPT ![u] = "done"]
    /\ UNCHANGED << pipeVars, tree, spc >>

\* a sibling task of the same identifier (md-to-json-structure) takes the
\* lock, works on the tree and releases
SiblingAcquire ==
    /\ spc = "idle"
    /\ lock = Free
    /\ lock' = Sibling
    /\ spc' = "working"
    /\ UNCHANGED << pipeVars, upc, tree, status >>

SiblingRelease ==
    /\ spc = "working"
    /\ lock' = Free
    /\ spc' = "done"
    /\ UNCHANGED << pipeVars, upc, tree, status >>

\* the state after NumUploads persisted conversions of one product inside a
\* running event loop: their upload tasks are created and none has run
InitUpload ==
    /\ call = PersistedCall
    /\ archive = EmptyBook
    /\ pc = "returned"
    /\ scratch = FALSE
    /\ md_img_dir = CustomImgDir
    /\ raised = "none"
    /\ opf_dir = Dirname(EmptyBook.opf_path)
    /\ itemrefs = << >>
    /\ content_items = EmptyDict
    /\ image_items = EmptyDict
    /\ image_map = EmptyDict
    /\ imgIdx = 1
    /\ assets = EmptyDict
    /\ markdown_content = << >>
    /\ docIdx = 1
    /\ convCalls = 0
    /\ outputFile = WrittenFile(<< >>)
    /\ uploadTasks = NumUploads
    /\ tempFile = FALSE
    /\ markdown_text = << >>
    /\ result = TextResult(<< >>)
    /\ exitStatus = "running"
    /\ upc = [u \in Uploads |-> "start"]
    /\ lock = Free
    /\ tree = "present"
    /\ status = "PENDING"
    /\ spc = "idle"

NextUpload ==
    \/ \E u \in Uploads : UploadStart(u)
    \/ \E u \in Uploads : UploadCheckDir(u)
    \/ \E u \in Uploads : UploadAcquire(u)
    \/ \E u \in Uploads : UploadWait(u)
    \/ \E u \in Uploads : UploadDirectory(u)
    \/ \E u \in Uploads : UploadRelease(u)
    \/ SiblingAcquire
    \/ SiblingRelease

SpecUpload == InitUpload /\ [][NextUpload]_vars

----------------------------------------------------------------------------
(* What the claims speak of *)

\* the archive path of a manifest href, and whether the archive has it
ArchivePath(href) == Join(Dirname(archive.opf_path), href)

Readable(href) == ArchivePath(href) \in DOMAIN archive.entries

Indices(seq) == [i \in 1..Len(seq) |-> i]

ContentAt(i) == IsContentType(archive.manifest[i].mt)

NamesContent(id) ==
    \E i \in 1..Len(archive.manifest) : archive.manifest[i].id = id /\ ContentAt(i)

\* the href of the last content-document item declared under an identifier
LastHref(id) ==
    LET m == archive.manifest
        last == CHOOSE i \in 1..Len(m) :
                    /\ m[i].id = id /\ ContentAt(i)
                    /\ \A j \in (i + 1)..Len(m) : ~(m[j].id = id /\ ContentAt(j))
    IN m[last].href

FirstDeclared(i) ==
    /\ ContentAt(i)
    /\ \A j \in 1..(i - 1) : ~(ContentAt(j) /\ archive.manifest[j].id = archive.manifest[i].id)

\* the spine idrefs that name a content document, as hrefs
SpineDocs ==
    LET named == SelectSeq(archive.spine, NamesContent)
    IN [i \in 1..Len(named) |-> LastHref(named[i])]

\* the content-document items in declaration order, as hrefs
ManifestDocs ==
    LET items == SelectSeq(Indices(archive.manifest), ContentAt)
    IN [i \in 1..Len(items) |-> archive.manifest[items[i]].href]

\* the content-document identifiers in the order of their first declaration,
\* each with the href of its last declaration
ManifestIdDocs ==
    LET items == SelectSeq(Indices(archive.manifest), FirstDeclared)
    IN [i \in 1..Len(items) |-> LastHref(archive.manifest[items[i]].id)]

ClaimedDocs == IF archive.spine # << >> THEN SpineDocs ELSE ManifestDocs

ConvertedDocs ==
    SelectSeq(IF archive.spine # << >> THEN SpineDocs ELSE ManifestIdDocs, Readable)

IsFragment(piece) == piece.kind = "fragment"

\* the converted fragments of the output document, in its order
Fragments == SelectSeq(outputFile.text, IsFragment)

BodyOf(href) == archive.entries[ArchivePath(href)]

FragmentOf(href) == ConvertDocument(BodyOf(href), image_map)

\* the output document has just been written
Written == pc = "cleanup"

\* C1 as stated: the i-th fragment comes from the i-th spine idref that names
\* a content-document item; with an empty spine, from the i-th
\* content-document item of the manifest.
C1_AsStated ==
    Written =>
        /\ Len(Fragments) = Len(ClaimedDocs)
        /\ \A i \in 1..Len(ClaimedDocs) :
              /\ Readable(ClaimedDocs[i])
              /\ Fragments[i].md = FragmentOf(ClaimedDocs[i])

\* C1 amended: the fragments of the output document come, in order, from the
\* spine idrefs that name a content-document item whose archive entry can be
\* read; with an empty spine, from the content-document identifiers of the
\* manifest in the order of their first declaration, the unreadable ones left
\* out.  An identifier that several content items share stands for the href
\* of the last of them.
C1_ReadingOrder ==
    Written =>
        /\ Len(Fragments) = Len(ConvertedDocs)
        /\ \A i \in 1..Len(ConvertedDocs) : Fragments[i].md = FragmentOf(ConvertedDocs[i])

\* a spine with an idref absent from the manifest, an unreadable document
\* and a document that was converted
C1_Witness ==
    /\ Written
    /\ \E i \in 1..Len(itemrefs) : ~NamesContent(itemrefs[i])
    /\ \E i \in 1..Len(SpineDocs) : ~Readable(SpineDocs[i])
    /\ \E i \in 1..Len(SpineDocs) : i > 1 /\ Readable(SpineDocs[i])
    /\ Len(Fragments) >= 1

IsImg(e) == e.tag = "img"

IsImageToken(t) == t.md = "image"

\* the src of every img of a document, and the reference of every image of
\* its fragment, in document order
SrcsOf(href) == SelectSeq(BodyOf(href), IsImg)

RefsOf(fragment) == SelectSeq(fragment.md, IsImageToken)

\* the image items whose archive entry could be read, by position in image_items
Extracted == {k \in 1..Len(image_items) : Readable(image_items[k].val)}

OwnAsset(k) == MdImagePath(md_img_dir, image_items[k].key, image_items[k].val)

Matches(k, src) == src = image_items[k].val \/ src = Basename(image_items[k].val)

LastMatch(src) ==
    CHOOSE k \in Extracted :
        Matches(k, src) /\ \A j \in Extracted : Matches(j, src) => j <= k

\* C2 as stated: a reference whose src is the href or the basename of an
\* extracted image item is rewritten to that item's own renamed asset.
C2_AsStated ==
    Written =>
        \A a \in 1..Len(ConvertedDocs) :
            \A n \in 1..Len(SrcsOf(ConvertedDocs[a])) :
                \A k \in Extracted :
                    Matches(k, SrcsOf(ConvertedDocs[a])[n].src)
                        => RefsOf(Fragments[a])[n].ref = OwnAsset(k)

\* C2 amended: a reference whose src is the href or the basename of an
\* extracted image item is rewritten to the renamed asset of the last
\* extracted item, in the order of the image loop, that has this src as href or
\* as basename.
C2_LastItemWins ==
    Written =>
        \A a \in 1..Len(ConvertedDocs) :
            \A n \in 1..Len(SrcsOf(ConvertedDocs[a])) :
                \A k \in Extracted :
                    Matches(k, SrcsOf(ConvertedDocs[a])[n].src)
                        => RefsOf(Fragments[a])[n].ref
                               = OwnAsset(LastMatch(SrcsOf(ConvertedDocs[a])[n].src))

\* two extracted images share a basename and a converted document refers to
\* it by that basename
C2_Witness ==
    /\ Written
    /\ \E a \in 1..Len(ConvertedDocs) :
         \E n \in 1..Len(SrcsOf(ConvertedDocs[a])) :
           \E k1 \in Extracted, k2 \in Extracted :
              /\ k1 < k2
              /\ image_items[k1].val # image_items[k2].val
              /\ SrcsOf(ConvertedDocs[a])[n].src = Basename(image_items[k1].val)
              /\ SrcsOf(ConvertedDocs[a])[n].src = Basename(image_items[k2].val)
              /\ RefsOf(Fragments[a])[n].ref = OwnAsset(k2)

IsHeadingAt(md, i) == md[i].md = "heading"

PrecededByBlank(md, i) == i > 1 /\ md[i - 1].md = "blank"

HeadingBefore(md, i) == \E j \in 1..(i - 1) : IsHeadingAt(md, j)

HasHeading(md) == \E j \in 1..Len(md) : IsHeadingAt(md, j)

\* C3 as stated: a separator stands before every heading but the first of the
\* whole book.
C3_AsStated ==
    Written =>
        \A a \in 1..Len(Fragments) :
            \A i \in 1..Len(Fragments[a].md) :
                IsHeadingAt(Fragments[a].md, i) =>
                    (PrecededByBlank(Fragments[a].md, i)
                        <=> (\/ HeadingBefore(Fragments[a].md, i)
                             \/ \E b \in 1..(a - 1) : HasHeading(Fragments[b].md)))

\* C3 amended: a separator stands before every heading but the first of its
\* own content document; the count of headings starts again with every
\* document.
C3_PerDocument ==
    Written =>
        \A a \in 1..Len(Fragments) :
            \A i \in 1..Len(Fragments[a].md) :
                IsHeadingAt(Fragments[a].md, i) =>
                    (PrecededByBlank(Fragments[a].md, i)
                        <=> HeadingBefore(Fragments[a].md, i))

\* two documents with headings, the first of them with two
C3_Witness ==
    /\ Written
    /\ Len(Fragments) = 2
    /\ \E i \in 1..Len(Fragments[1].md) :
          IsHeadingAt(Fragments[1].md, i) /\ PrecededByBlank(Fragments[1].md, i)
    /\ \E i \in 1..Len(Fragments[2].md) :
          IsHeadingAt(Fragments[2].md, i) /\ ~PrecededByBlank(Fragments[2].md, i)


\* the image items of the manifest whose archive entry is missing
MissingImageItems ==
    {i \in 1..Len(archive.manifest) :
        /\ ~IsContentType(archive.manifest[i].mt)
        /\ IsImageType(archive.manifest[i].mt)
        /\ ~Readable(archive.manifest[i].href)}

StructuralDefects == LocateDefects \cup PackageDefects \cup {"item_without_media_type"}

\* apart from images, nothing is wrong with the source, the archive or the
\* output location
ElseValid ==
    /\ call.src_exists
    /\ raised \notin StructuralDefects \cup {"write_failed", "download_failed"}
    /\ \A i \in 1..Len(archive.manifest) : ContentAt(i) => Readable(archive.manifest[i].href)

ReturnedFragments == SelectSeq(markdown_text, IsFragment)

\* C4 as stated: with exactly one image entry missing and all else valid, the
\* invocation returns the text, every other image is in the asset directory
\* and in the rename map, and a reference to the missing image keeps its href
\* (a reference that no extracted image answers to by href or by basename).
C4_AsStated ==
    (pc = "returned" /\ Cardinality(MissingImageItems) = 1 /\ ElseValid) =>
        /\ result.kind = "text"
        /\ \A k \in Extracted :
              /\ DictHas(image_map, image_items[k].val)
              /\ DictHas(image_map, Basename(image_items[k].val))
              /\ call.save =>
                    /\ DictHas(assets, NewImageName(image_items[k].key, image_items[k].val))
                    /\ DictGet(assets, NewImageName(image_items[k].key, image_items[k].val))
                          = ImageBytes(ArchivePath(image_items[k].val))
        /\ \A a \in 1..Len(ConvertedDocs) :
              \A n \in 1..Len(SrcsOf(ConvertedDocs[a])) :
                 \A i \in MissingImageItems :
                    (/\ SrcsOf(ConvertedDocs[a])[n].src = archive.manifest[i].href
                     /\ \A j \in Extracted : ~Matches(j, archive.manifest[i].href)
                     /\ \A j \in Extracted : ~Matches(j, Basename(archive.manifest[i].href)))
                        => RefsOf(ReturnedFragments[a])[n].ref = archive.manifest[i].href

\* C5: a structural failure ends in the failure result, and at no moment
\* after it has an asset file or the output text been written or an upload
\* been triggered, whatever the persistence mode.
C5_NothingPersisted ==
    raised \in StructuralDefects =>
        /\ assets = EmptyDict
        /\ ~outputFile.exists
        /\ uploadTasks = 0
        /\ pc \in {"returned", "exited"} => result = NoneResult

\* the container pointer is absent, persistence was requested, and the
\* invocation has returned
C5_Witness ==
    /\ pc = "returned"
    /\ raised = "no_container"
    /\ call.save
    /\ result = NoneResult

\* C6: once convert_html_to_markdown has been called, every image item has
\* been through the image loop and has its file, and no step, the first call
\* included, changes the rename map.
C6_MapBuiltThenReadOnly ==
    [][convCalls' > 0 =>
        /\ image_map' = image_map
        /\ imgIdx' > Len(image_items')
        /\ pc' = "convert" =>
              \A k \in 1..Len(image_items') :
                 DictHas(assets', NewImageName(image_items'[k].key, image_items'[k].val))]_vars

\* a document has been converted in a book with two images and a filled map
C6_Witness ==
    /\ pc = "convert"
    /\ convCalls > 0
    /\ Len(image_items) >= 2
    /\ Len(image_map) >= 2

\* C7 as stated: main exits non-zero exactly on total failure: no source, a
\* local source that does not exist, or a failure of the whole conversion
\* (a structural defect; the failed download and the failed write are
\* counted with it).
C7_AsStated ==
    pc = "exited" =>
        (exitStatus # 0
            <=> \/ call.entry = "none"
                \/ ~call.src_exists
                \/ raised \in StructuralDefects \cup {"write_failed", "download_failed"})

\* C8 as stated: a task that is about to upload or delete the tree, or to
\* release the lock, holds the lock itself.
C8_AsStated ==
    \A u \in Uploads :
        upc[u] \in {"upload", "release", "release_raised"} => lock = Task(u)

\* C9 as stated: without persistence, the scratch directory is gone when the
\* invocation has returned.
C9_AsStated ==
    (pc \in {"returned", "exited"} /\ ~call.save) => ~scratch

\* C10 as stated: after the image loop, an image whose entry could not be
\* read has no file under its new asset name and no entry in the rename map
\* (unless an extracted image has the same href or basename).
C10_AsStated ==
    pc = "convert" =>
        \A k \in 1..Len(image_items) :
            ~Readable(image_items[k].val) =>
                /\ ~DictHas(assets, NewImageName(image_items[k].key, image_items[k].val))
                /\ (\A j \in Extracted :
                        /\ ~Matches(j, image_items[k].val)
                        /\ ~Matches(j, Basename(image_items[k].val)))
                    => /\ ~DictHas(image_map, image_items[k].val)
                       /\ ~DictHas(image_map, Basename(image_items[k].val))

====
